---- MODULE Spec2Model ----
(***************************************************************************)
(* A model of frontend/src/components/ScoreBreakdown.tsx: the ImpactBar    *)
(* and ScoreBreakdown React components.                                    *)
(*                                                                         *)
(* Numbers.  The component works on JavaScript numbers that stand for      *)
(* percentages.  The model keeps them as exact fixed-point integers: one   *)
(* percentage point is Percent units and one tenth of a point is Tenth     *)
(* units.  Tenth is a multiple of 3, 4 and 10, so the three divisions of   *)
(* the component (/ 4, / 3, / 10) are exact on every input that is a whole *)
(* number of tenths.  Rounding error of binary floating point is not       *)
(* modelled; NaN and the infinities are not inputs of the model.           *)
(***************************************************************************)
EXTENDS Integers, FiniteSets, Sequences, TLC

VARIABLES
    breakdown,            \* prop: the ten impact metrics, in three categories
    environmentalScore,   \* prop
    certificationBonus,   \* prop
    openSections,         \* useState: the set of expanded sections
    view,                 \* what the last call of ScoreBreakdown returned
    toggled               \* history: has toggleSection(s) run an odd number of times

vars == <<breakdown, environmentalScore, certificationBonus, openSections, view, toggled>>

Tenth == 3 * 4 * 5
Percent == 10 * Tenth

Abs(x) == IF x < 0 THEN -x ELSE x

\* Math.min
MathMin(a, b) == IF a <= b THEN a ELSE b

\* Number.prototype.toFixed: the sign, and the magnitude rounded to the nearest
\* multiple of unit (the larger one on a tie), counted in units.
\* unit = Tenth is toFixed(1), unit = Percent is toFixed(0).
toFixed(x, unit) ==
    [neg |-> x < 0, n |-> (2 * Abs(x) + unit) \div (2 * unit)]

-----------------------------------------------------------------------------
(* ImpactBar *)

getBarColorDropsEquality(v) ==
    IF v < 20 * Percent THEN "bg-gray-300"
    ELSE IF v < 40 * Percent THEN "bg-gray-400"
    ELSE IF v < 60 * Percent THEN "bg-gray-500"
    ELSE IF v < 80 * Percent THEN "bg-gray-600"
    ELSE "bg-gray-800"

getBarColor(v) ==
    IF v <= 20 * Percent THEN "bg-gray-300"
    ELSE IF v <= 40 * Percent THEN "bg-gray-400"
    ELSE IF v <= 60 * Percent THEN "bg-gray-500"
    ELSE IF v <= 80 * Percent THEN "bg-gray-600"
    ELSE "bg-gray-800"

barWidthUnclamped(value) == value

barWidth(value) == MathMin(value, 100 * Percent)

ImpactBar(label, value) ==
    [label |-> label,
     text  |-> toFixed(value, Tenth),
     color |-> getBarColor(value),
     width |-> barWidth(value)]

-----------------------------------------------------------------------------
(* ScoreBreakdown *)

Sections == {"material", "care", "origin", "formula"}

InitialOpenSections == {"material"}

toggleOnlyAdds(open, section) == open \cup {section}

\* the set handed to setOpenSections by toggleSection(section)
newSections(open, section) ==
    IF section \in open THEN open \ {section} ELSE open \cup {section}

materialAvgOfThree(b) ==
    (b.material_impact.co2 + b.material_impact.water +
     b.material_impact.energy + b.material_impact.chemical) \div 3

materialAvg(b) ==
    (b.material_impact.co2 + b.material_impact.water +
     b.material_impact.energy + b.material_impact.chemical) \div 4

careAvg(b) ==
    (b.care_impact.co2 + b.care_impact.water + b.care_impact.energy) \div 3

originAvg(b) ==
    (b.origin_impact.grid + b.origin_impact.transport +
     b.origin_impact.manufacturing) \div 3

allMetricsSum(b) ==
    b.material_impact.co2 + b.material_impact.water +
    b.material_impact.energy + b.material_impact.chemical +
    b.care_impact.co2 + b.care_impact.water + b.care_impact.energy +
    b.origin_impact.grid + b.origin_impact.transport +
    b.origin_impact.manufacturing

overallImpactOfCategories(b) ==
    (materialAvg(b) + careAvg(b) + originAvg(b)) \div 3

overallImpact(b) == allMetricsSum(b) \div 10

finalScoreUncapped(e, c) == e + c

finalScoreIgnoresBonus(e, c) == MathMin(100 * Percent, e)

finalScoreMathMax(e, c) == IF 100 * Percent >= e + c THEN 100 * Percent ELSE e + c

finalScore(e, c) == MathMin(100 * Percent, e + c)

Hidden == [hidden |-> TRUE]

NotRendered == [rendered |-> FALSE]

\* one call of the component function: the locals it computes and the
\* element tree it returns (children of a closed AccordionSection are not
\* rendered)
Render(b, e, c, open) ==
    [rendered      |-> TRUE,
     materialAvg   |-> materialAvg(b),
     careAvg       |-> careAvg(b),
     originAvg     |-> originAvg(b),
     overallImpact |-> overallImpact(b),
     finalScore    |-> finalScore(e, c),
     summary |->
        [environmental |-> toFixed(e, Tenth),
         bonus         |-> toFixed(c, Tenth),
         final         |-> toFixed(finalScore(e, c), Percent)],
     isOpen |-> [s \in Sections |-> s \in open],
     material |->
        IF "material" \in open
        THEN [co2      |-> ImpactBar("Carbon Emissions", b.material_impact.co2),
              water    |-> ImpactBar("Water Usage", b.material_impact.water),
              energy   |-> ImpactBar("Energy Consumption", b.material_impact.energy),
              chemical |-> ImpactBar("Chemical Impact", b.material_impact.chemical)]
        ELSE Hidden,
     care |->
        IF "care" \in open
        THEN [co2    |-> ImpactBar("Carbon Emissions", b.care_impact.co2),
              water  |-> ImpactBar("Water Usage", b.care_impact.water),
              energy |-> ImpactBar("Energy Consumption", b.care_impact.energy)]
        ELSE Hidden,
     origin |->
        IF "origin" \in open
        THEN [grid          |-> ImpactBar("Grid Energy Intensity", b.origin_impact.grid),
              transport     |-> ImpactBar("Transport Impact", b.origin_impact.transport),
              manufacturing |-> ImpactBar("Manufacturing Process", b.origin_impact.manufacturing)]
        ELSE Hidden,
     formula |->
        IF "formula" \in open
        THEN [materialAvg   |-> toFixed(materialAvg(b), Tenth),
              careAvg       |-> toFixed(careAvg(b), Tenth),
              originAvg     |-> toFixed(originAvg(b), Tenth),
              averageImpact |-> toFixed(overallImpact(b), Tenth),
              environmental |-> toFixed(100 * Percent - overallImpact(b), Tenth),
              final         |-> toFixed(finalScore(e, c), Percent)]
        ELSE Hidden]

-----------------------------------------------------------------------------
(* The inputs *)

Breakdowns(M, C, O) ==
    [material_impact : [co2 : M, water : M, energy : M, chemical : M],
     care_impact     : [co2 : C, water : C, energy : C],
     origin_impact   : [grid : O, transport : O, manufacturing : O]]

MaxFine == 4
MaxScore == 120
MaxBonus == 60
MaxBar == 110

\* metric values 0, 10, ... , 10 * MaxFine percent, then 100 and 110 percent
FineValues == {i * 10 * Percent : i \in 0..MaxFine} \cup {100 * Percent, 110 * Percent}

CoarseValues == {0, 100 * Percent}

\* scores from -10 to MaxScore percent and bonuses from -5 to MaxBonus
\* percent, in steps of half a percent
ScoreValues == {i * 5 * Tenth : i \in -20..(2 * MaxScore)}

BonusValues == {i * 5 * Tenth : i \in -10..(2 * MaxBonus)}

\* bar values from -5 to MaxBar percent in steps of a tenth, and a few large ones
BarValues ==
    {t * Tenth : t \in -50..(10 * MaxBar)} \cup {i * 1000 * Percent : i \in 1..3}

ZeroBreakdown ==
    [material_impact |-> [co2 |-> 0, water |-> 0, energy |-> 0, chemical |-> 0],
     care_impact     |-> [co2 |-> 0, water |-> 0, energy |-> 0],
     origin_impact   |-> [grid |-> 0, transport |-> 0, manufacturing |-> 0]]

Unmounted ==
    /\ openSections = {}
    /\ view = NotRendered
    /\ toggled = [s \in Sections |-> FALSE]

\* the metrics vary, the two scalar props are fixed
InitMetrics ==
    /\ breakdown \in Breakdowns(FineValues, CoarseValues, CoarseValues)
    /\ environmentalScore = 70 * Percent
    /\ certificationBonus = 20 * Percent
    /\ Unmounted

\* the two scalar props vary, the metrics are fixed
InitScores ==
    /\ breakdown = ZeroBreakdown
    /\ environmentalScore \in ScoreValues
    /\ certificationBonus \in BonusValues
    /\ Unmounted

\* one metric of the section that is open at first varies finely
InitBars ==
    /\ \E v \in BarValues :
          breakdown \in
            {[ZeroBreakdown EXCEPT !.material_impact.co2 = v],
             [ZeroBreakdown EXCEPT !.material_impact.water = v],
             [ZeroBreakdown EXCEPT !.material_impact.energy = v],
             [ZeroBreakdown EXCEPT !.material_impact.chemical = v]}
    /\ environmentalScore = 100 * Percent
    /\ certificationBonus = 0
    /\ Unmounted

\* a view instance with a few props, for the clicks
Init ==
    /\ breakdown \in Breakdowns(CoarseValues, CoarseValues, CoarseValues)
    /\ environmentalScore \in {0, 70 * Percent, 100 * Percent}
    /\ certificationBonus \in {0, 50 * Percent}
    /\ Unmounted

InitCalc == InitMetrics \/ InitScores \/ InitBars

-----------------------------------------------------------------------------
(* The steps *)

\* the first call of ScoreBreakdown: useState takes its initial value
Mount ==
    /\ view = NotRendered
    /\ openSections' = InitialOpenSections
    /\ view' = Render(breakdown, environmentalScore, certificationBonus, openSections')
    /\ UNCHANGED <<breakdown, environmentalScore, certificationBonus, toggled>>

\* a click on the header of a section: toggleSection, then the re-render
\* that setOpenSections schedules (React renders it before the next click
\* is delivered, so the handler always closes over the current set)
toggleSection(section) ==
    /\ view # NotRendered
    /\ openSections' = newSections(openSections, section)
    /\ view' = Render(breakdown, environmentalScore, certificationBonus, openSections')
    /\ toggled' = [toggled EXCEPT ![section] = ~@]
    /\ UNCHANGED <<breakdown, environmentalScore, certificationBonus>>

Next == Mount \/ \E section \in Sections : toggleSection(section)

Spec == Init /\ [][Next]_vars

NextCalc == Mount

\* the component called once on each of a wide range of inputs
SpecCalc == InitCalc /\ [][NextCalc]_vars

-----------------------------------------------------------------------------
(* The claims *)

Rendered == view # NotRendered

MaterialFields == {"co2", "water", "energy", "chemical"}

SumOfMaterial ==
    breakdown.material_impact.co2 + breakdown.material_impact.water +
    breakdown.material_impact.energy + breakdown.material_impact.chemical

SumOfCare ==
    breakdown.care_impact.co2 + breakdown.care_impact.water +
    breakdown.care_impact.energy

SumOfOrigin ==
    breakdown.origin_impact.grid + breakdown.origin_impact.transport +
    breakdown.origin_impact.manufacturing

AllMetrics ==
    {breakdown.material_impact[f] : f \in MaterialFields}
    \cup {breakdown.care_impact[f] : f \in {"co2", "water", "energy"}}
    \cup {breakdown.origin_impact[f] : f \in {"grid", "transport", "manufacturing"}}

InRange(x) == 0 <= x /\ x <= 100 * Percent

\* C1: whatever the environmental score and the certification bonus, the
\* final score the component computes, and the whole percentage it shows for
\* it, is at most 100.
C1_FinalScoreAtMost100 ==
    Rendered =>
        /\ view.finalScore <= 100 * Percent
        /\ ~view.summary.final.neg => view.summary.final.n <= 100

\* a bonus above 50 percent that takes the sum over 100: the score is capped
C1_Witness ==
    /\ Rendered
    /\ certificationBonus > 50 * Percent
    /\ environmentalScore + certificationBonus > 100 * Percent
    /\ view.finalScore = 100 * Percent

\* C2: the final score is min(100, e + b): exactly e + b when e + b <= 100
\* and exactly 100 otherwise.
C2_FinalScoreIsMin ==
    Rendered =>
        LET sum == environmentalScore + certificationBonus IN
        /\ sum <= 100 * Percent => view.finalScore = sum
        /\ sum > 100 * Percent => view.finalScore = 100 * Percent

\* a positive bonus that leaves the sum under 100: the score is the sum
C2_Witness ==
    /\ Rendered
    /\ certificationBonus > 0
    /\ environmentalScore > 0
    /\ environmentalScore + certificationBonus < 100 * Percent
    /\ view.finalScore = environmentalScore + certificationBonus

\* C3: on every input, the environmental score shown in the summary and
\* used for the final score is 100 minus the overall impact average of the
\* ten metrics of the same breakdown.
C3_EnvironmentalScoreIs100MinusOverallImpact ==
    Rendered =>
        LET derived == 100 * Percent - view.overallImpact IN
        /\ view.summary.environmental = toFixed(derived, Tenth)
        /\ view.finalScore = MathMin(100 * Percent, derived + certificationBonus)

C4_Example ==
    /\ \A f \in MaterialFields : breakdown.material_impact[f] = 0
    /\ \A f \in {"co2", "water", "energy"} : breakdown.care_impact[f] = 0
    /\ \A f \in {"grid", "transport", "manufacturing"} :
          breakdown.origin_impact[f] = 100 * Percent

\* C4: the overall impact is the sum of the ten metrics divided by 10; for
\* material = [0,0,0,0], care = [0,0,0], origin = [100,100,100] it is 30,
\* and the 'Environmental:' line shows 100 - 30 = 70.0.
C4_OverallImpactIsMeanOfTen ==
    Rendered =>
        /\ 10 * view.overallImpact = SumOfMaterial + SumOfCare + SumOfOrigin
        /\ view.formula # Hidden =>
              /\ view.formula.averageImpact = toFixed(view.overallImpact, Tenth)
              /\ view.formula.environmental =
                    toFixed(100 * Percent - view.overallImpact, Tenth)
        /\ C4_Example =>
              /\ view.overallImpact = 30 * Percent
              /\ view.formula # Hidden =>
                    /\ view.formula.averageImpact = [neg |-> FALSE, n |-> 300]
                    /\ view.formula.environmental = [neg |-> FALSE, n |-> 700]

\* the example, with the section that shows the calculation expanded
C4_Witness ==
    /\ Rendered
    /\ C4_Example
    /\ "formula" \in openSections
    /\ view.formula.environmental = [neg |-> FALSE, n |-> 700]

\* C5: with all ten metrics equal to k (k = 0 or 100) and no bonus, the
\* environmental score is 100 - k and the final score is 100 - k.
C5_UniformMetrics ==
    Rendered =>
        \A k \in {0, 100 * Percent} :
            (AllMetrics = {k} /\ certificationBonus = 0) =>
                /\ environmentalScore = 100 * Percent - k
                /\ view.finalScore = 100 * Percent - k

C6_MaterialExample ==
    /\ breakdown.material_impact.co2 = 10 * Percent
    /\ breakdown.material_impact.water = 20 * Percent
    /\ breakdown.material_impact.energy = 30 * Percent
    /\ breakdown.material_impact.chemical = 40 * Percent

\* C6: each category average is the mean of that category's metrics;
\* material = [10,20,30,40] gives exactly 25.
C6_CategoryAverages ==
    Rendered =>
        /\ 4 * view.materialAvg = SumOfMaterial
        /\ 3 * view.careAvg = SumOfCare
        /\ 3 * view.originAvg = SumOfOrigin
        /\ C6_MaterialExample => view.materialAvg = 25 * Percent

\* the example, with care and origin averages that are not whole numbers
C6_Witness ==
    /\ Rendered
    /\ C6_MaterialExample
    /\ view.materialAvg = 25 * Percent
    /\ SumOfCare = 100 * Percent
    /\ 3 * view.careAvg = 100 * Percent
    /\ SumOfOrigin = 200 * Percent

C7_InBand(k, v) ==
    CASE k = 1 -> v <= 20 * Percent
      [] k = 2 -> 20 * Percent < v /\ v <= 40 * Percent
      [] k = 3 -> 40 * Percent < v /\ v <= 60 * Percent
      [] k = 4 -> 60 * Percent < v /\ v <= 80 * Percent
      [] k = 5 -> 80 * Percent < v

C7_BandColor ==
    <<"bg-gray-300", "bg-gray-400", "bg-gray-500", "bg-gray-600", "bg-gray-800">>

\* C7: the colour of a bar is decided by five bands with inclusive upper
\* thresholds: every value lies in exactly one band, the colour is that
\* band's, and t and t + 0.1 get different colours for t = 20, 40, 60, 80.
C7_FiveBands ==
    (Rendered /\ view.material # Hidden) =>
        \A f \in MaterialFields :
            LET v == breakdown.material_impact[f]
                bar == view.material[f] IN
            /\ Cardinality({k \in 1..5 : C7_InBand(k, v)}) = 1
            /\ \A k \in 1..5 : C7_InBand(k, v) <=> bar.color = C7_BandColor[k]
            /\ \A i \in 1..4 :
                  /\ v = i * 20 * Percent => bar.color = C7_BandColor[i]
                  /\ v = i * 20 * Percent + Tenth => bar.color = C7_BandColor[i + 1]
                  /\ C7_BandColor[i] # C7_BandColor[i + 1]

\* a value one tenth above the first threshold is drawn in the second colour
C7_Witness ==
    /\ Rendered
    /\ breakdown.material_impact.water = 20 * Percent + Tenth
    /\ view.material.water.color = "bg-gray-400"

\* C8: a bar is rendered for every value, in range or not, and its width is
\* min(value, 100): never above 100, and the value itself up to 100.
C8_BarWidthClamped ==
    (Rendered /\ view.material # Hidden) =>
        \A f \in MaterialFields :
            LET v == breakdown.material_impact[f]
                bar == view.material[f] IN
            /\ DOMAIN bar = {"label", "text", "color", "width"}
            /\ bar.width <= 100 * Percent
            /\ v <= 100 * Percent => bar.width = v
            /\ v > 100 * Percent => bar.width = 100 * Percent

\* a value of 2000 percent is drawn, as a full bar
C8_Witness ==
    /\ Rendered
    /\ breakdown.material_impact.energy = 2000 * Percent
    /\ view.material.energy.width = 100 * Percent
    /\ view.material.energy.text = [neg |-> FALSE, n |-> 20000]

C9_Parity ==
    Rendered =>
        /\ \A s \in Sections :
              /\ (s \in openSections) <=> ((s = "material") # toggled[s])
              /\ view.isOpen[s] <=> (s \in openSections)
              /\ newSections(newSections(openSections, s), s) = openSections
        /\ (\A s \in Sections : ~toggled[s]) => openSections = {"material"}

C9_Step ==
    /\ (~Rendered /\ Rendered') => openSections' = {"material"}
    /\ \A s \in Sections :
          (toggled'[s] # toggled[s]) =>
              /\ (s \in openSections') <=> (s \notin openSections)
              /\ \A t \in Sections \ {s} :
                    (t \in openSections') <=> (t \in openSections)
              /\ view'.materialAvg = view.materialAvg
              /\ view'.careAvg = view.careAvg
              /\ view'.originAvg = view.originAvg
              /\ view'.overallImpact = view.overallImpact
              /\ view'.finalScore = view.finalScore
              /\ view'.summary = view.summary
              /\ UNCHANGED <<breakdown, environmentalScore, certificationBonus>>

\* C9: the expanded sections start as {material}; toggleSection(s) flips s
\* and leaves every other section, the props and the computed averages and
\* scores alone; so a section is expanded iff (it is material) differs from
\* (it was toggled an odd number of times), and toggling twice restores the
\* set.
C9_ExpandedSections == [](C9_Parity) /\ [][C9_Step]_vars

\* material was closed and care opened
C9_Witness ==
    /\ Rendered
    /\ toggled["material"] /\ toggled["care"]
    /\ ~toggled["origin"] /\ ~toggled["formula"]
    /\ openSections = {"care"}
    /\ view.material = Hidden
    /\ view.care # Hidden

\* C10: metrics in [0, 100] give category averages, an overall impact and
\* 100 minus it in [0, 100]; an environmental score in [0, 100] and a
\* bonus >= 0 give a final score in [0, 100] that is not below the
\* environmental score.
C10_RangePreserved ==
    Rendered =>
        /\ (\A x \in AllMetrics : InRange(x)) =>
              /\ InRange(view.materialAvg)
              /\ InRange(view.careAvg)
              /\ InRange(view.originAvg)
              /\ InRange(view.overallImpact)
              /\ InRange(100 * Percent - view.overallImpact)
        /\ (InRange(environmentalScore) /\ certificationBonus >= 0) =>
              /\ InRange(view.finalScore)
              /\ view.finalScore >= environmentalScore

\* metrics at both ends of the range, and a bonus that is added in full
C10_Witness ==
    /\ Rendered
    /\ \A x \in AllMetrics : InRange(x)
    /\ SumOfMaterial = 400 * Percent
    /\ view.materialAvg = 100 * Percent
    /\ view.originAvg = 0
    /\ InRange(environmentalScore)
    /\ certificationBonus > 0
    /\ view.finalScore > environmentalScore

====
